---- MODULE Spec2Model ----
(***************************************************************************)
(* AetherCore: normalisation, idempotent insertion and acknowledgement     *)
(* pipeline.  The ledger (CgsServicios / CefTransacciones) is reached      *)
(* through one shared write connection; one worker per channel (xml, txt,  *)
(* excel) processes the file of its inbox record by record, and a direct   *)
(* client of IDatabaseWriter may call the gateway with any pair of DTOs.   *)
(***************************************************************************)
EXTENDS Integers, Sequences, FiniteSets, TLC

(***************************************************************************)
(* Bounds of the model.                                                    *)
(***************************************************************************)
MaxDirectas == 2          \* direct gateway calls per behaviour
MaxInterrupciones == 1    \* process interruptions (kill / timeout) per behaviour
MaxRegs == 3              \* records of a generated file
MaxSubidas == 3           \* upload_services calls per behaviour
LimiteRecursion == 5      \* frames of upload_services the interpreter allows
MaxSoltados == 2          \* times the partner drops a file under one name
MaxEntregas == 2          \* callback invocations counted per file name

(***************************************************************************)
(* Threads: the three channel workers and a direct caller of the gateway.  *)
(***************************************************************************)
Canales == {"xml", "txt", "excel"}
Directo == "directo"
Hilos == Canales \cup {Directo}

(***************************************************************************)
(* Strings that the code compares or sorts are sequences of characters.    *)
(* Business order ids of the xml and txt channels are digit strings.       *)
(***************************************************************************)
P10 == <<1, 0>>
P5 == <<5>>
P200 == <<2, 0, 0>>
Pedidos == {P10, P5}
Sucursales == {10, 20}

Ninguno == [nada |-> TRUE]

\* ResultadoInsercion as built by InsertionService from what the writer returned:
\* an order reference gives exitoso = True; None (the order already existed) and
\* every exception give exitoso = False with an error text.
ResultadoInsercion(pedido, res) ==
    [numero_pedido |-> pedido,
     exitoso |-> (res = "OrderId"),
     error |-> CASE res = "OrderId" -> "ninguno"
                 [] res = "AlreadyExists" -> "Servicio ya existe (duplicado)"
                 [] res = "ValueError" -> "Error de validacion"
                 [] OTHER -> "Error de BD"]

(***************************************************************************)
(* File names are sequences of '_'-separated segments of characters.       *)
(***************************************************************************)
Digitos == {"0", "1", "2", "3", "4", "5", "6", "7", "8", "9"}
CC00 == <<"0", "0">>
NombreC4U == << <<"I">>, <<"C", "4", "U", "-", "5", "2", "-", "V">>, <<"t">> >>
NombrePlano == << <<"p">>, <<"x">> >>

EmpiezaCon(s, pre) ==
    /\ Len(s) >= Len(pre)
    /\ SubSeq(s, 1, Len(pre)) = pre

\* extract_cc_from_filename: the second segment must start with "C4U-" and
\* go on with two digits; anything else gives "00".
ExtractCcFromFilename(nombre) ==
    IF Len(nombre) > 1 /\ EmpiezaCon(nombre[2], <<"C", "4", "U", "-">>)
    THEN LET seg == SubSeq(nombre[2], 5, Len(nombre[2]))
         IN IF Len(seg) >= 2 /\ seg[1] \in Digitos /\ seg[2] \in Digitos
            THEN SubSeq(seg, 1, 2)
            ELSE CC00
    ELSE CC00

\* ClienteMapeos.get_cc_code over CLIENTE_TO_CC.
GetCcCode(codCliente) ==
    CASE codCliente = "45" -> <<"5", "2">>
      [] codCliente = "46" -> <<"0", "1">>
      [] codCliente = "47" -> <<"0", "2">>
      [] codCliente = "48" -> <<"2", "3">>
      [] OTHER -> CC00

(***************************************************************************)
(* Input files.  A record of a file carries its business id, whether the   *)
(* display lookup (puntos_info / dict_clientes) finds its point (enInfo),  *)
(* and whether DataMapperService resolves it and builds the DTOs (mapea).  *)
(***************************************************************************)
Reg(id, enInfo, mapea, cli) ==
    [id |-> id, enInfo |-> enInfo, mapea |-> mapea, codCliente |-> cli]

\* A row of a spreadsheet: its sheet and row index, whether its point exists
\* for the client (obtener_info_completa_punto), the client folder of the file
\* and the PEDIDO cell (read by the emergency mapper only).
Fila(hoja, i, ok, cli, pedido) ==
    [hoja |-> hoja, idx |-> i, mapea |-> ok, codCliente |-> cli, pedido |-> pedido,
     valida |-> TRUE]

\* A row the mapper cannot turn into DTOs: it has a CODIGO, and building the
\* ServicioDTO raises (a negative VALOR_TOTAL, for one).
FilaInvalida(hoja, i, cli) == [Fila(hoja, i, TRUE, cli, <<>>) EXCEPT !.valida = FALSE]

ArchivosXml ==
    { [canal |-> "xml", nombre |-> NombreC4U, tipo |-> "vacio", regs |-> <<>>],
      [canal |-> "xml", nombre |-> NombrePlano, tipo |-> "ilegible", regs |-> <<>>],
      [canal |-> "xml", nombre |-> NombreC4U, tipo |-> "datos",
       regs |-> <<Reg(P10, TRUE, TRUE, "45")>>],
      [canal |-> "xml", nombre |-> NombreC4U, tipo |-> "datos",
       regs |-> <<Reg(P5, TRUE, TRUE, "45"), Reg(P10, FALSE, FALSE, "45")>>],
      [canal |-> "xml", nombre |-> NombreC4U, tipo |-> "datos",
       regs |-> <<Reg(P10, FALSE, TRUE, "45")>>] }

ArchivosTxt ==
    { [canal |-> "txt", nombre |-> NombrePlano, tipo |-> "vacio", regs |-> <<>>],
      [canal |-> "txt", nombre |-> NombrePlano, tipo |-> "sin_tipos", regs |-> <<>>],
      [canal |-> "txt", nombre |-> NombrePlano, tipo |-> "datos",
       regs |-> <<Reg(P10, TRUE, TRUE, "45")>>],
      [canal |-> "txt", nombre |-> NombreC4U, tipo |-> "datos",
       regs |-> <<Reg(P5, FALSE, FALSE, "ninguno")>>],
      [canal |-> "txt", nombre |-> NombrePlano, tipo |-> "datos",
       regs |-> <<Reg(P10, FALSE, TRUE, "45"), Reg(P5, TRUE, TRUE, "45")>>] }

ArchivosExcel ==
    { [canal |-> "excel", nombre |-> NombrePlano, tipo |-> "ilegible", regs |-> <<>>],
      [canal |-> "excel", nombre |-> NombrePlano, tipo |-> "datos",
       regs |-> <<Fila("h1", 0, TRUE, "45", <<>>)>>],
      [canal |-> "excel", nombre |-> NombrePlano, tipo |-> "datos",
       regs |-> <<Fila("h1", 0, TRUE, "45", <<>>), Fila("h2", 0, FALSE, "45", <<>>)>>],
      [canal |-> "excel", nombre |-> NombrePlano, tipo |-> "datos",
       regs |-> <<Fila("h1", 0, TRUE, "4", <<1>>), Fila("h1", 1, TRUE, "4", <<1>>)>>],
      [canal |-> "excel", nombre |-> NombrePlano, tipo |-> "datos",
       regs |-> <<Fila("h1", 0, TRUE, "45", <<>>), FilaInvalida("h1", 1, "45"),
                  Fila("h1", 2, FALSE, "45", <<>>)>>] }

Catalogo(c) ==
    CASE c = "xml" -> ArchivosXml
      [] c = "txt" -> ArchivosTxt
      [] OTHER -> ArchivosExcel

\* An inbox without a file.
SinArchivo(c) == [canal |-> c, nombre |-> NombrePlano, tipo |-> "ninguno", regs |-> <<>>]

\* The inboxes at start: one file in one channel, or the files of two
\* channels that carry the same order.
Solo(a) == [c \in Canales |-> IF c = a.canal THEN a ELSE SinArchivo(c)]

XmlP10 == [canal |-> "xml", nombre |-> NombreC4U, tipo |-> "datos",
           regs |-> <<Reg(P10, TRUE, TRUE, "45")>>]
TxtP10 == [canal |-> "txt", nombre |-> NombrePlano, tipo |-> "datos",
           regs |-> <<Reg(P10, TRUE, TRUE, "45")>>]
ExcelUna == [canal |-> "excel", nombre |-> NombrePlano, tipo |-> "datos",
             regs |-> <<Fila("h1", 0, TRUE, "45", <<>>)>>]

EscenariosOnce ==
    {Solo(a) : a \in UNION {Catalogo(c) : c \in Canales}}
      \cup {[xml |-> XmlP10, txt |-> TxtP10, excel |-> SinArchivo("excel")]}

EscenariosWatch ==
    { [xml |-> XmlP10, txt |-> TxtP10, excel |-> SinArchivo("excel")],
      [xml |-> XmlP10, txt |-> SinArchivo("txt"), excel |-> ExcelUna],
      [xml |-> SinArchivo("xml"), txt |-> TxtP10, excel |-> ExcelUna] }

\* File names the partner drops in a watched inbox.
NombresDeBuzon == {"a.xml", "b.xml", "c.txt"}

VARIABLES
    modo,           \* how the processors are driven: "once" one file at a time,
                    \* "watch" from concurrent watcher threads, "once_all" and
                    \* "watch_all" by run_once_all / run_watch_all
    trabajador,     \* the worker of each channel: sin_iniciar, vivo, caido, fin
    archivo,        \* the file of each channel's inbox
    lugar,          \* where that file is: entrada, gestionados, errores, eliminado
    novedades,      \* a NOVEDADES copy and report were written for the file
    argumento,      \* the input handed to a mapper or helper called on its own
    resultado,      \* what that call returned
    salidas,        \* the rows the spreadsheet's GESTIONADOS and NOVEDADES outputs
                    \* retain, and the rows the report gives a reason for
    pc,             \* position of each thread
    idx,            \* index of the row being processed
    filas,          \* rows mapped from the file in this run
    resultados,     \* ResultadoInsercion of the rows processed in this run
    llamada,        \* the gateway call each thread is in
    servicios,      \* committed rows of CgsServicios
    transacciones,  \* committed rows of CefTransacciones
    pendientes,     \* rows written in the open transaction of the write connection
    nIntentos,      \* gateway calls started so far
    historial,      \* gateway calls finished so far, in order
    respuestas,     \* acknowledgement files written
    nAcks,          \* acknowledgement files written for the file in this run
    corrida,        \* processing runs started for the file
    interrupciones, \* interruptions so far
    reloj,          \* datetime.now()
    api,            \* the ApiService: its session flag and the upload call in course
    vigia,          \* the DirectoryWatcher of an inbox: the files in its directory,
                    \* its _seen set, and what its callback was given
    nDirectas       \* direct gateway calls so far

vars == <<modo, trabajador, vigia, api, argumento, resultado, archivo, lugar, novedades, salidas, pc, idx, filas, resultados, llamada,
          servicios, transacciones, pendientes, nIntentos, historial, respuestas,
          nAcks, corrida, interrupciones, reloj, nDirectas>>

ledger == <<servicios, transacciones, pendientes>>
ficheros == <<lugar, novedades, salidas, respuestas, nAcks>>
funcion == <<argumento, resultado>>
perifericos == <<vigia, api>>
entorno == <<modo, trabajador, perifericos, funcion, archivo, interrupciones, reloj>>

\* DirectoryWatcher.__init__: nothing seen yet; the inbox starts empty.
VigiaNuevo(nombres) ==
    [dir |-> {}, seen |-> {},
     entregas |-> [n \in nombres |-> 0],
     soltados |-> [n \in nombres |-> 0],
     ultimo |-> [n \in nombres |-> "ninguno"]]

\* ApiService.__init__: not authenticated, no upload in course.
ApiNuevo ==
    [is_authenticated |-> FALSE, pc |-> "idle", profundidad |-> 0, logins |-> 0,
     reautenticaciones |-> 0, retorno |-> "ninguno", subidas |-> 0]

InitComun ==
    /\ resultado = Ninguno
    /\ api = ApiNuevo
    /\ vigia = VigiaNuevo(NombresDeBuzon)
    /\ trabajador = [c \in Canales |->
                        IF modo \in {"once_all", "watch_all"} THEN "sin_iniciar"
                                                             ELSE "vivo"]
    /\ lugar = [c \in Canales |->
                   IF archivo[c].tipo = "ninguno" THEN "ninguno" ELSE "entrada"]
    /\ novedades = [c \in Canales |-> FALSE]
    /\ salidas = [gestionados |-> {}, novedades |-> {}, reporte |-> {}]
    /\ pc = [h \in Hilos |-> "idle"]
    /\ idx = [c \in Canales |-> 0]
    /\ filas = [c \in Canales |-> <<>>]
    /\ resultados = [c \in Canales |-> <<>>]
    /\ llamada = [h \in Hilos |-> Ninguno]
    /\ servicios = {}
    /\ transacciones = {}
    /\ pendientes = {}
    /\ nIntentos = 0
    /\ historial = <<>>
    /\ respuestas = {}
    /\ nAcks = [c \in Canales |-> 0]
    /\ corrida = [c \in Canales |-> 0]
    /\ interrupciones = 0
    /\ reloj = 0
    /\ nDirectas = 0

Init ==
    /\ modo = "once"
    /\ archivo \in EscenariosOnce
    /\ argumento = Ninguno
    /\ InitComun

(***************************************************************************)
(* The insertion gateway: ServiceWriterRepository over ServiceTransactionSP*)
(***************************************************************************)
Activo(h) == pc[h] \notin {"idle", "done"}

\* A one-shot sweep processes one file after the other in one thread; the
\* watchers run each channel in its own thread.  A channel whose worker is
\* not running never enters its processor.
PuedeEmpezar(h) ==
    /\ h \in Canales => trabajador[h] = "vivo"
    /\ modo \in {"watch", "watch_all"} \/ \A g \in Hilos \ {h} : ~Activo(g)

\* A loop that gives up at the first failed row (variant).
AvanzaHastaError(h, r) ==
    /\ resultados' = [resultados EXCEPT ![h] = Append(@, r)]
    /\ idx' = [idx EXCEPT ![h] = @ + 1]
    /\ pc' = [pc EXCEPT ![h] = IF r.exitoso /\ idx[h] < Len(filas[h])
                                THEN "insertar" ELSE "finalizar"]

\* The next row of the file, or the end of the loop over its rows.
Avanza(h, r) ==
    /\ resultados' = [resultados EXCEPT ![h] = Append(@, r)]
    /\ idx' = [idx EXCEPT ![h] = @ + 1]
    /\ pc' = [pc EXCEPT ![h] = IF idx[h] < Len(filas[h]) THEN "insertar" ELSE "finalizar"]

\* The gateway call ll of thread h returns (or raises) res to its caller, which
\* wraps it in a ResultadoInsercion and goes on with the next row.
Finaliza(h, ll, res) ==
    /\ historial' = Append(historial,
           [intento |-> ll.intento, hilo |-> h, pedido |-> ll.pedido,
            sucS |-> ll.sucS, sucT |-> ll.sucT, res |-> res,
            sp |-> ll.sp, falla |-> ll.falla, fallaConsulta |-> ll.fallaConsulta,
            inicio |-> ll.inicio])
    /\ llamada' = [llamada EXCEPT ![h] = Ninguno]
    /\ IF h = Directo
       THEN /\ pc' = [pc EXCEPT ![h] = "idle"]
            /\ UNCHANGED <<idx, resultados>>
       ELSE Avanza(h, ResultadoInsercion(ll.pedido, res))

\* The cross-field check of insertar_servicio_con_transaccion (variant: no check).
SucursalesCoincidenSinValidar(sucS, sucT) == TRUE

SucursalesCoinciden(sucS, sucT) == sucS = sucT

\* insertar_servicio_con_transaccion up to the existence check: a pair whose
\* branch codes differ raises DatabaseWriteException at once.
IniciaLlamada(h, pedido, sucS, sucT, origen) ==
    LET ll == [pedido |-> pedido, sucS |-> sucS, sucT |-> sucT, origen |-> origen,
               intento |-> nIntentos + 1, sp |-> FALSE, falla |-> FALSE,
               fallaConsulta |-> FALSE,
               inicio |-> Len(historial)]
    IN /\ nIntentos' = nIntentos + 1
       /\ IF SucursalesCoinciden(sucS, sucT)
          THEN /\ pc' = [pc EXCEPT ![h] = "verificar"]
               /\ llamada' = [llamada EXCEPT ![h] = ll]
               /\ UNCHANGED <<idx, resultados, historial>>
          ELSE Finaliza(h, ll, "Inconsistencia")

\* SELECT COUNT(*) FROM CgsServicios WHERE NumeroPedido = ?, run on the write
\* connection: it sees the committed rows and those of the open transaction.
ContarServicios(pedido) ==
    Cardinality({r \in servicios : r.pedido = pedido})
    + Cardinality({r \in pendientes : r.tabla = "servicio" /\ r.pedido = pedido})

\* verificar_servicio_existe: a failing query counts as "does not exist".
ExisteSinConsultar(pedido, fallaConsulta) == FALSE

\* A failing query taken as "the order exists" (variant).
ExisteSiFallaConsulta(pedido, fallaConsulta) ==
    fallaConsulta \/ ContarServicios(pedido) > 0

Existe(pedido, fallaConsulta) ==
    IF fallaConsulta THEN FALSE ELSE ContarServicios(pedido) > 0

\* The existence check (execute_scalar, under the connection's lock); an order
\* found makes the call return None without running the stored procedure.
VerificarServicioExiste(h) ==
    /\ pc[h] = "verificar"
    /\ \E fallaConsulta \in BOOLEAN :
         LET ll == [llamada[h] EXCEPT !.falla = @ \/ fallaConsulta,
                                      !.fallaConsulta = fallaConsulta]
         IN IF Existe(ll.pedido, fallaConsulta)
            THEN Finaliza(h, ll, "AlreadyExists")
            ELSE /\ pc' = [pc EXCEPT ![h] = "sp"]
                 /\ llamada' = [llamada EXCEPT ![h] = ll]
                 /\ UNCHANGED <<idx, resultados, historial>>
    /\ UNCHANGED <<ledger, ficheros, entorno, filas, nIntentos, corrida, nDirectas>>

FilaLedger(tabla, ll) ==
    [tabla |-> tabla, pedido |-> ll.pedido, intento |-> ll.intento, origen |-> ll.origen]

\* What EXEC AddServiceTransaction leaves in the open transaction: both rows
\* when it returns the order reference, the service row alone when it fails
\* at the transaction insert, nothing when it fails before writing.
EscritoPorSp(ll, salida) ==
    CASE salida = "ok" -> {FilaLedger("servicio", ll), FilaLedger("transaccion", ll)}
      [] salida = "parcial" -> {FilaLedger("servicio", ll)}
      [] OTHER -> {}

\* _ejecutar_sp, cursor.execute and fetchone: not under the connection's lock.
EjecutarSp(h) ==
    /\ pc[h] = "sp"
    /\ \E salida \in {"ok", "parcial", "error"} :
         /\ pendientes' = pendientes \cup EscritoPorSp(llamada[h], salida)
         /\ llamada' = [llamada EXCEPT ![h].sp = TRUE,
                                       ![h].falla = @ \/ salida # "ok"]
         /\ pc' = [pc EXCEPT ![h] = IF salida = "ok" THEN "commit" ELSE "rollback"]
    /\ UNCHANGED <<servicios, transacciones, ficheros, entorno, idx, filas, resultados,
                   nIntentos, historial, corrida, nDirectas>>

\* connection.commit() commits the open transaction of the connection, that
\* is every pending row, and the call returns the order reference.
CommitSp(h) ==
    /\ pc[h] = "commit"
    /\ servicios' = servicios \cup {r \in pendientes : r.tabla = "servicio"}
    /\ transacciones' = transacciones \cup {r \in pendientes : r.tabla = "transaccion"}
    /\ pendientes' = {}
    /\ Finaliza(h, llamada[h], "OrderId")
    /\ UNCHANGED <<ficheros, entorno, filas, nIntentos, corrida, nDirectas>>

\* connection.rollback() in the except branch discards the open transaction
\* and the exception reaches the caller as DatabaseWriteException.
RollbackSp(h) ==
    /\ pc[h] = "rollback"
    /\ pendientes' = {}
    /\ Finaliza(h, llamada[h], "ErrorBD")
    /\ UNCHANGED <<servicios, transacciones, ficheros, entorno, filas, nIntentos,
                   corrida, nDirectas>>

\* A client of IDatabaseWriter calls the gateway with any pair of DTOs; its
\* calls start before the channel workers take their files.
LlamadaDirecta ==
    /\ pc[Directo] = "idle"
    /\ nDirectas < MaxDirectas
    /\ PuedeEmpezar(Directo)
    /\ \A c \in Canales : corrida[c] = 0
    /\ nDirectas' = nDirectas + 1
    /\ \E p \in Pedidos, s \in Sucursales, t \in Sucursales :
         IniciaLlamada(Directo, p, s, t, [canal |-> Directo, fila |-> 0])
    /\ UNCHANGED <<ledger, ficheros, entorno, filas, corrida>>

(***************************************************************************)
(* The acknowledgement file: TR2_VATCO_<cc><ts>.txt, one "<id>,<estado>"   *)
(* line per id.                                                            *)
(***************************************************************************)
Min(a, b) == IF a < b THEN a ELSE b

\* Python's comparison of two strings: by the first differing character, a
\* proper prefix before the longer string.
LexMenor(a, b) ==
    \E k \in 1..(Min(Len(a), Len(b)) + 1) :
        /\ \A j \in 1..(k - 1) : a[j] = b[j]
        /\ \/ k <= Len(a) /\ k <= Len(b) /\ a[k] < b[k]
           \/ k = Len(a) + 1 /\ k <= Len(b)

RECURSIVE ValorNumerico(_)
ValorNumerico(s) ==
    IF s = <<>> THEN 0 ELSE 10 * ValorNumerico(SubSeq(s, 1, Len(s) - 1)) + s[Len(s)]

\* The order sorted() puts ids in (variant: by numeric value).
MenorNumerico(a, b) == ValorNumerico(a) < ValorNumerico(b)

Menor(a, b) == LexMenor(a, b)

\* sorted(set(...)): the distinct ids in ascending order.
RECURSIVE Sorted(_)
Sorted(S) ==
    IF S = {} THEN <<>>
    ELSE LET m == CHOOSE x \in S : \A y \in S \ {x} : Menor(x, y)
         IN <<m>> \o Sorted(S \ {m})

IdsDe(fs) == {fs[k].id : k \in DOMAIN fs}

\* estado_de_row: "2" when the display lookup left a "no encontrado" text.
EstadoDeRow(f) == IF f.enInfo THEN "1" ELSE "2"

\* XMLProcessor._estados_por_id: a dict filled row by row, so the last row of
\* an id decides.
EstadosPorId(fs) ==
    [i \in IdsDe(fs) |->
        LET k == CHOOSE n \in DOMAIN fs :
                    /\ fs[n].id = i
                    /\ \A m \in DOMAIN fs : fs[m].id = i => m <= n
        IN EstadoDeRow(fs[k])]

\* TXTProcessor._estados_por_codigo: "2" when any row of the CODIGO group
\* carries a "no encontrado" text.
EstadosPorCodigo(fs) ==
    [i \in IdsDe(fs) |->
        IF \E n \in DOMAIN fs : fs[n].id = i /\ ~fs[n].enInfo THEN "2" ELSE "1"]

\* The lines written: for each id of the sorted list, its estado.
Cuerpo(ids, estados) == [n \in DOMAIN ids |-> <<ids[n], estados[ids[n]]>>]

\* procesar_archivo_xml: "00" when every estado is "2", else the code of the name.
CcXml(fs, nombre) ==
    IF \A i \in IdsDe(fs) : EstadosPorId(fs)[i] = "2"
    THEN CC00
    ELSE ExtractCcFromFilename(nombre)

\* procesar_archivo_txt: the code of the first point whose client has a CC
\* code other than "00", else the code of the name.
CcTxt(fs, nombre) ==
    IF \E n \in DOMAIN fs : GetCcCode(fs[n].codCliente) # CC00
    THEN LET k == CHOOSE n \in DOMAIN fs :
                     /\ GetCcCode(fs[n].codCliente) # CC00
                     /\ \A m \in DOMAIN fs : GetCcCode(fs[m].codCliente) # CC00 => n <= m
         IN GetCcCode(fs[k].codCliente)
    ELSE ExtractCcFromFilename(nombre)

\* An acknowledgement file written by run n of channel c, by the main path of
\* the processor or by its failure handler.
Respuesta(c, n, cc, cuerpo, fallido) ==
    [canal |-> c, corrida |-> n, cc |-> cc, cuerpo |-> cuerpo, fallido |-> fallido]

\* _manejar_xml_fallido / _manejar_txt_fallido: one line with the file name as
\* id and the code of the name.
RespuestaFallido(c, n) ==
    Respuesta(c, n, ExtractCcFromFilename(archivo[c].nombre),
              << <<archivo[c].nombre, "2">> >>, TRUE)

(***************************************************************************)
(* The channel processors.                                                 *)
(***************************************************************************)
\* The failure handler of the xml and txt processors: the rejection
\* acknowledgement, then the file goes to the errors folder.
ManejarFallido(c, n, previos) ==
    /\ respuestas' = respuestas \cup {RespuestaFallido(c, n)}
    /\ nAcks' = [nAcks EXCEPT ![c] = previos + 1]
    /\ lugar' = [lugar EXCEPT ![c] = "errores"]
    /\ pc' = [pc EXCEPT ![c] = "done"]

EmpiezaFilas(c, fs) ==
    /\ filas' = [filas EXCEPT ![c] = fs]
    /\ idx' = [idx EXCEPT ![c] = 1]
    /\ resultados' = [resultados EXCEPT ![c] = <<>>]

\* procesar_archivo_xml up to the insertion loop: an empty or unparsable file
\* and a file without order/remit elements are handled as failed.
XmlLeer ==
    /\ pc["xml"] = "idle"
    /\ lugar["xml"] = "entrada"
    /\ PuedeEmpezar("xml")
    /\ corrida' = [corrida EXCEPT !["xml"] = @ + 1]
    /\ IF archivo["xml"].tipo # "datos" \/ archivo["xml"].regs = <<>>
       THEN /\ ManejarFallido("xml", corrida["xml"] + 1, 0)
            /\ UNCHANGED <<idx, filas, resultados>>
       ELSE /\ EmpiezaFilas("xml", archivo["xml"].regs)
            /\ pc' = [pc EXCEPT !["xml"] = "insertar"]
            /\ nAcks' = [nAcks EXCEPT !["xml"] = 0]
            /\ UNCHANGED <<lugar, respuestas>>
    /\ UNCHANGED <<ledger, entorno, novedades, salidas, llamada, nIntentos, historial, nDirectas>>

\* procesar_archivo_txt up to the insertion loop: an empty file is handled as
\* failed; a file that is not made of type 1, 2 and 3 records is moved to
\* gestionados as it is.
TxtLeer ==
    /\ pc["txt"] = "idle"
    /\ lugar["txt"] = "entrada"
    /\ PuedeEmpezar("txt")
    /\ corrida' = [corrida EXCEPT !["txt"] = @ + 1]
    /\ CASE archivo["txt"].tipo = "vacio" ->
              /\ ManejarFallido("txt", corrida["txt"] + 1, 0)
              /\ UNCHANGED <<idx, filas, resultados>>
         [] archivo["txt"].tipo = "sin_tipos" ->
              /\ lugar' = [lugar EXCEPT !["txt"] = "gestionados"]
              /\ pc' = [pc EXCEPT !["txt"] = "done"]
              /\ nAcks' = [nAcks EXCEPT !["txt"] = 0]
              /\ UNCHANGED <<idx, filas, resultados, respuestas>>
         [] OTHER ->
              /\ EmpiezaFilas("txt", archivo["txt"].regs)
              /\ pc' = [pc EXCEPT !["txt"] = "insertar"]
              /\ nAcks' = [nAcks EXCEPT !["txt"] = 0]
              /\ UNCHANGED <<lugar, respuestas>>
    /\ UNCHANGED <<ledger, entorno, novedades, salidas, llamada, nIntentos, historial, nDirectas>>

\* _manejar_excel_fallido: the file goes to ERRORES with an error log.
ManejarExcelFallido ==
    /\ lugar' = [lugar EXCEPT !["excel"] = "errores"]
    /\ pc' = [pc EXCEPT !["excel"] = "done"]

\* The order id a mapper gives a row.  The emergency mapper (client folder 4)
\* prefixes the PEDIDO cell with the client code; the standard and cash4u
\* mappers mint it from the client code, datetime.now() and the row index.
NumeroPedido(f, ahora) ==
    IF f.codCliente = "4" THEN <<4>> \o f.pedido ELSE <<45, ahora, f.idx>>

\* Whether the mapper's row loop yields DTOs for the row: a row whose
\* processing raises is logged and left out of the list.
FilaMapeable(f) == f.valida

RECURSIVE SoloMapeables(_)
SoloMapeables(regs) ==
    IF regs = <<>> THEN <<>>
    ELSE IF FilaMapeable(regs[1]) THEN <<regs[1]>> \o SoloMapeables(Tail(regs))
         ELSE SoloMapeables(Tail(regs))

\* mapear_a_dtos over the sheets of the file.
MapearADtos(regs, ahora) ==
    LET ok == SoloMapeables(regs)
    IN [n \in DOMAIN ok |->
           [id |-> NumeroPedido(ok[n], ahora), hoja |-> ok[n].hoja,
            idx |-> ok[n].idx, mapea |-> ok[n].mapea]]

\* procesar_archivo_excel up to the insertion loop: a file that cannot be read
\* or has no valid sheet is handled as failed.  The clock has advanced since
\* any earlier run.
ExcelLeer ==
    /\ pc["excel"] = "idle"
    /\ lugar["excel"] = "entrada"
    /\ PuedeEmpezar("excel")
    /\ corrida' = [corrida EXCEPT !["excel"] = @ + 1]
    /\ reloj' = reloj + 1
    /\ IF archivo["excel"].tipo # "datos"
          \/ MapearADtos(archivo["excel"].regs, reloj') = <<>>
       THEN /\ ManejarExcelFallido
            /\ UNCHANGED <<idx, filas, resultados>>
       ELSE /\ EmpiezaFilas("excel", MapearADtos(archivo["excel"].regs, reloj'))
            /\ pc' = [pc EXCEPT !["excel"] = "insertar"]
            /\ UNCHANGED lugar
    /\ UNCHANGED <<ledger, modo, perifericos, trabajador, funcion, archivo, interrupciones, novedades,
                   salidas,
                   respuestas, nAcks,
                   llamada, nIntentos, historial, nDirectas>>

\* The branch code the resolved point carries; the mappers give it to both DTOs.
SucursalDePunto == CHOOSE s \in Sucursales : \A t \in Sucursales : s <= t

\* A row whose point is unknown is given a default point (variant).
PuntoSustituido(f) == TRUE

\* Whether the lookup of the row's point by the inserting path returns a point:
\* _obtener_info_completa_punto_sin_cliente for an XML order,
\* _obtener_info_completa_punto for a TXT record and for a spreadsheet row.
PuntoResuelto(f) == f.mapea

\* One row of the insertion loop: the mapper resolves the point and builds the
\* pair (a row it cannot map fails without reaching the gateway), then the
\* gateway is called.
Insertar(c) ==
    /\ pc[c] = "insertar"
    /\ LET f == filas[c][idx[c]]
       IN IF PuntoResuelto(f)
          THEN IniciaLlamada(c, f.id, SucursalDePunto, SucursalDePunto,
                             [canal |-> c, fila |-> idx[c]])
          ELSE /\ Avanza(c, ResultadoInsercion(f.id, "ValueError"))
               /\ UNCHANGED <<llamada, nIntentos, historial>>
    /\ UNCHANGED <<ledger, ficheros, entorno, filas, corrida, nDirectas>>

\* procesar_archivo_xml after the loop: the Excel report, the acknowledgement
\* by id, the move to gestionados.
XmlFinalizar ==
    /\ pc["xml"] = "finalizar"
    /\ \E okExcel \in BOOLEAN :
         IF okExcel
         THEN /\ respuestas' = respuestas \cup
                    {Respuesta("xml", corrida["xml"],
                               CcXml(filas["xml"], archivo["xml"].nombre),
                               Cuerpo(Sorted(IdsDe(filas["xml"])),
                                      EstadosPorId(filas["xml"])), FALSE)}
              /\ nAcks' = [nAcks EXCEPT !["xml"] = @ + 1]
              /\ lugar' = [lugar EXCEPT !["xml"] = "gestionados"]
              /\ pc' = [pc EXCEPT !["xml"] = "done"]
         ELSE ManejarFallido("xml", corrida["xml"], nAcks["xml"])
    /\ UNCHANGED <<ledger, entorno, novedades, salidas, idx, filas, resultados, llamada,
                   nIntentos, historial, corrida, nDirectas>>

\* procesar_archivo_txt after the loop.
TxtFinalizar ==
    /\ pc["txt"] = "finalizar"
    /\ \E okExcel \in BOOLEAN :
         IF okExcel
         THEN /\ respuestas' = respuestas \cup
                    {Respuesta("txt", corrida["txt"],
                               CcTxt(filas["txt"], archivo["txt"].nombre),
                               Cuerpo(Sorted(IdsDe(filas["txt"])),
                                      EstadosPorCodigo(filas["txt"])), FALSE)}
              /\ nAcks' = [nAcks EXCEPT !["txt"] = @ + 1]
              /\ lugar' = [lugar EXCEPT !["txt"] = "gestionados"]
              /\ pc' = [pc EXCEPT !["txt"] = "done"]
         ELSE ManejarFallido("txt", corrida["txt"], nAcks["txt"])
    /\ UNCHANGED <<ledger, entorno, novedades, salidas, idx, filas, resultados, llamada,
                   nIntentos, historial, corrida, nDirectas>>

Fallidos(c) == {n \in DOMAIN resultados[c] : ~resultados[c][n].exitoso}

\* The sheet and row index of the rows n of the list fs.
FilasDeHoja(fs, ns) == {<<fs[n].hoja, fs[n].idx>> : n \in ns}

\* exitosas_map and fallidas_map after the loop.
ExitosasMap == FilasDeHoja(filas["excel"], DOMAIN resultados["excel"] \ Fallidos("excel"))
FallidasMap == FilasDeHoja(filas["excel"], Fallidos("excel"))

\* procesar_archivo_excel after the loop: the file is moved to GESTIONADOS
\* when every row succeeded; otherwise filtered copies are written (the
\* successful rows to GESTIONADOS, the failed ones to NOVEDADES with a report)
\* and the original is removed; every row put in fallidas_map had a line
\* appended to errores, which the report lists.  No acknowledgement file is
\* written.
ExcelFinalizar ==
    /\ pc["excel"] = "finalizar"
    /\ lugar' = [lugar EXCEPT !["excel"] =
                    IF Fallidos("excel") = {} THEN "gestionados" ELSE "eliminado"]
    /\ novedades' = [novedades EXCEPT !["excel"] = Fallidos("excel") # {}]
    /\ salidas' =
          [gestionados |->
               IF Fallidos("excel") = {}
               THEN FilasDeHoja(archivo["excel"].regs, DOMAIN archivo["excel"].regs)
               ELSE ExitosasMap,
           novedades |-> FallidasMap,
           reporte |-> FallidasMap]
    /\ pc' = [pc EXCEPT !["excel"] = "done"]
    /\ UNCHANGED <<ledger, entorno, respuestas, nAcks, idx, filas, resultados, llamada,
                   nIntentos, historial, corrida, nDirectas>>

\* The process is stopped (killed, or timed out by its caller) and started
\* again: every thread is back at its start, the connection is gone and the
\* database discards its open transaction; files stay where they are.
Interrumpir ==
    /\ interrupciones < MaxInterrupciones
    /\ \E h \in Hilos : Activo(h)
    /\ interrupciones' = interrupciones + 1
    /\ pc' = [h \in Hilos |-> IF pc[h] = "done" THEN "done" ELSE "idle"]
    /\ llamada' = [h \in Hilos |-> Ninguno]
    /\ idx' = [c \in Canales |-> IF pc[c] = "done" THEN idx[c] ELSE 0]
    /\ filas' = [c \in Canales |-> IF pc[c] = "done" THEN filas[c] ELSE <<>>]
    /\ resultados' = [c \in Canales |-> IF pc[c] = "done" THEN resultados[c] ELSE <<>>]
    /\ pendientes' = {}
    /\ UNCHANGED <<modo, perifericos, trabajador, funcion, archivo, reloj, servicios, transacciones,
                   ficheros,
                   nIntentos,
                   historial, corrida, nDirectas>>

Next ==
    \/ XmlLeer
    \/ TxtLeer
    \/ ExcelLeer
    \/ \E c \in Canales : Insertar(c)
    \/ \E h \in Hilos : VerificarServicioExiste(h)
    \/ \E h \in Hilos : EjecutarSp(h)
    \/ \E h \in Hilos : CommitSp(h)
    \/ \E h \in Hilos : RollbackSp(h)
    \/ XmlFinalizar
    \/ TxtFinalizar
    \/ ExcelFinalizar
    \/ LlamadaDirecta
    \/ Interrumpir

\* The processors entered one file after the other, as run_once_xml,
\* run_once_txt and run_once_excel enter them.
Spec == Init /\ [][Next]_vars

\* The processors entered from one watcher thread per channel, as
\* run_watch_xml, run_watch_txt and run_watch_excel's callbacks enter them,
\* all on the shared write connection.
InitWatch ==
    /\ modo = "watch"
    /\ archivo \in EscenariosWatch
    /\ argumento = Ninguno
    /\ InitComun

NextWatch ==
    \/ XmlLeer
    \/ TxtLeer
    \/ ExcelLeer
    \/ \E c \in Canales : Insertar(c)
    \/ \E c \in Canales : VerificarServicioExiste(c)
    \/ \E c \in Canales : EjecutarSp(c)
    \/ \E c \in Canales : CommitSp(c)
    \/ \E c \in Canales : RollbackSp(c)
    \/ XmlFinalizar
    \/ TxtFinalizar
    \/ ExcelFinalizar
    \/ Interrumpir

SpecWatch == InitWatch /\ [][NextWatch]_vars

(***************************************************************************)
(* The directory watcher of one inbox during its lifetime: the partner      *)
(* drops files, _scan_once hands each unseen name to the callback.          *)
(***************************************************************************)
\* A watcher that records a name only when its callback returned (variant).
RegistrarSiRetorna(seen, name, salida) ==
    IF salida = "excepcion" THEN seen ELSE seen \cup {name}

\* self._seen.add(name), before the callback is called.
Registrar(seen, name, salida) == seen \cup {name}

\* The partner copies a file into the inbox, under a new name or under the
\* name of a file that is no longer there.
Soltar(name) ==
    /\ name \notin vigia.dir
    /\ vigia.soltados[name] < MaxSoltados
    /\ vigia' = [vigia EXCEPT !.dir = @ \cup {name},
                              !.soltados[name] = @ + 1]
    /\ UNCHANGED <<modo, trabajador, api, funcion, archivo, interrupciones, reloj, ledger,
                   ficheros, pc, idx, filas, resultados, llamada, nIntentos, historial,
                   corrida, nDirectas>>

\* One turn of the loop of _scan_once for a file whose name is not in _seen.
\* The callback processes the file and moves it out of the inbox, leaves it
\* there (a suffix it does not handle, a move that failed), or raises, which
\* ends the scan; _loop catches the exception and scans again later.
ScanOnce(name) ==
    /\ name \in vigia.dir
    /\ name \notin vigia.seen
    /\ vigia.entregas[name] < MaxEntregas
    /\ \E salida \in {"movido", "queda", "excepcion"} :
         vigia' = [vigia EXCEPT !.seen = Registrar(@, name, salida),
                                !.entregas[name] = @ + 1,
                                !.ultimo[name] = salida,
                                !.dir = IF salida = "movido" THEN @ \ {name} ELSE @]
    /\ UNCHANGED <<modo, trabajador, api, funcion, archivo, interrupciones, reloj, ledger,
                   ficheros, pc, idx, filas, resultados, llamada, nIntentos, historial,
                   corrida, nDirectas>>

InitVigia ==
    /\ modo = "watch"
    /\ archivo = [c \in Canales |-> SinArchivo(c)]
    /\ argumento = Ninguno
    /\ InitComun

NextVigia ==
    \/ \E name \in NombresDeBuzon : Soltar(name)
    \/ \E name \in NombresDeBuzon : ScanOnce(name)

SpecVigia == InitVigia /\ [][NextVigia]_vars

(***************************************************************************)
(* ApiService.upload_services against a server that answers as it likes.   *)
(* The call re-enters itself on a 401; profundidad counts its frames, and  *)
(* the interpreter's recursion limit ends the descent with a RecursionError*)
(* that the except clause of an outer frame turns into None.               *)
(***************************************************************************)
SinOtros ==
    UNCHANGED <<modo, trabajador, vigia, funcion, archivo, interrupciones, reloj, ledger,
                ficheros, pc, idx, filas, resultados, llamada, nIntentos, historial,
                corrida, nDirectas>>

\* Every frame returns what the frame below returned.
Retorna(a, valor) == [a EXCEPT !.pc = "fin", !.retorno = valor]

\* The head of upload_services: login() when the session is not authenticated.
Entra(a) ==
    [a EXCEPT !.profundidad = @ + 1,
              !.pc = IF a.is_authenticated THEN "post" ELSE "login"]

\* A caller invokes upload_services(services).
UploadServices ==
    /\ api.pc \in {"idle", "fin"}
    /\ api.subidas < MaxSubidas
    /\ api' = Entra([api EXCEPT !.profundidad = 0, !.logins = 0,
                                !.reautenticaciones = 0, !.retorno = "ninguno",
                                !.subidas = @ + 1])
    /\ SinOtros

\* login(): status 200 or 302 sets is_authenticated; anything else, or an
\* exception, makes upload_services return None.
Login ==
    /\ api.pc = "login"
    /\ \E ok \in BOOLEAN :
         LET a == [api EXCEPT !.logins = @ + 1]
         IN api' = IF ok THEN [a EXCEPT !.is_authenticated = TRUE, !.pc = "post"]
                         ELSE Retorna(a, "None")
    /\ SinOtros

\* session.post to the upload endpoint and the branches on its status code.
Post ==
    /\ api.pc = "post"
    /\ \E codigo \in {"200", "401", "500", "excepcion"} :
         api' = CASE codigo = "200" -> Retorna(api, "result")
                  [] codigo = "401" ->
                       IF api.profundidad < LimiteRecursion
                       THEN Entra([api EXCEPT !.is_authenticated = FALSE,
                                              !.reautenticaciones = @ + 1])
                       ELSE Retorna([api EXCEPT !.is_authenticated = FALSE], "None")
                  [] OTHER -> Retorna(api, "None")
    /\ SinOtros

InitSubida ==
    /\ modo = "once"
    /\ archivo = [c \in Canales |-> SinArchivo(c)]
    /\ argumento = Ninguno
    /\ InitComun

NextSubida == UploadServices \/ Login \/ Post

SpecSubida == InitSubida /\ [][NextSubida]_vars

(***************************************************************************)
(* All channels started together: run_once_all and run_watch_all with      *)
(* only = None, every inbox holding a file.                                *)
(***************************************************************************)
OrdenCanales == <<"xml", "txt", "excel">>

Anteriores(c) ==
    {OrdenCanales[i] : i \in {j \in DOMAIN OrdenCanales :
                                 \E k \in DOMAIN OrdenCanales :
                                     OrdenCanales[k] = c /\ j < k}}

\* Whether the call that starts channel c binds to the callee's parameters.
\* run_once_all and run_watch_all pass (puntos_info, conn) to run_once_txt and
\* run_watch_txt, which take (self, conn); run_watch_excel passes
\* recursive=True to DirectoryWatcher, whose constructor has no such
\* parameter.  Either call raises TypeError before any file is looked at.
LlamadaValida(m, c) ==
    CASE c = "xml" -> TRUE
      [] c = "txt" -> FALSE
      [] OTHER -> m = "once_all"

\* The start of channel c.  run_once_all calls the sweeps one after the
\* other, so a sweep starts when the one before it has returned, and none
\* starts after an exception has left run_once_all; run_watch_all starts one
\* daemon thread per channel, in order, whatever happened to the others.
Arranca(c) ==
    /\ modo \in {"once_all", "watch_all"}
    /\ trabajador[c] = "sin_iniciar"
    /\ \A g \in Anteriores(c) :
           IF modo = "once_all" THEN trabajador[g] = "fin"
                                ELSE trabajador[g] # "sin_iniciar"
    /\ trabajador' = [trabajador EXCEPT
                         ![c] = IF LlamadaValida(modo, c) THEN "vivo" ELSE "caido"]
    /\ UNCHANGED <<modo, perifericos, funcion, archivo, interrupciones, reloj, ledger, ficheros, pc, idx,
                   filas, resultados, llamada, nIntentos, historial, corrida,
                   nDirectas>>

\* A one-shot sweep returns when the files it listed have been processed.
Termina(c) ==
    /\ modo = "once_all"
    /\ trabajador[c] = "vivo"
    /\ ~Activo(c)
    /\ lugar[c] # "entrada"
    /\ trabajador' = [trabajador EXCEPT ![c] = "fin"]
    /\ UNCHANGED <<modo, perifericos, funcion, archivo, interrupciones, reloj, ledger, ficheros, pc, idx,
                   filas, resultados, llamada, nIntentos, historial, corrida,
                   nDirectas>>

EscenariosTodos ==
    {[xml |-> x, txt |-> t, excel |-> ExcelUna] :
        x \in ArchivosXml, t \in {a \in ArchivosTxt : a.tipo = "datos"}}

InitTodos ==
    /\ modo \in {"once_all", "watch_all"}
    /\ archivo \in EscenariosTodos
    /\ argumento = Ninguno
    /\ InitComun

\* The steps that can be taken once the channels are started this way: the
\* TXT and the spreadsheet processors are never entered.
NextTodos ==
    \/ \E c \in Canales : Arranca(c)
    \/ \E c \in Canales : Termina(c)
    \/ XmlLeer
    \/ Insertar("xml")
    \/ VerificarServicioExiste("xml")
    \/ EjecutarSp("xml")
    \/ CommitSp("xml")
    \/ RollbackSp("xml")
    \/ XmlFinalizar

\* Every started thread is scheduled: a step that stays possible is taken.
SpecTodos == InitTodos /\ [][NextTodos]_vars /\ WF_vars(NextTodos)

(***************************************************************************)
(* The acknowledgement of every small file: the xml and txt processors run *)
(* over each file of up to MaxRegs records whose ids are 200, 10 or 5.     *)
(***************************************************************************)
IdsAck == {P200, P10, P5}

RegsAck ==
    UNION {[1..n -> {Reg(i, e, FALSE, "45") : i \in IdsAck, e \in BOOLEAN}] : n \in 1..MaxRegs}

ArchivosAck ==
    {[canal |-> c, nombre |-> NombreC4U, tipo |-> "datos", regs |-> rs] :
        c \in {"xml", "txt"}, rs \in RegsAck}

InitAck ==
    /\ modo = "once"
    /\ archivo \in {Solo(a) : a \in ArchivosAck}
    /\ argumento = Ninguno
    /\ InitComun

NextAck ==
    \/ XmlLeer
    \/ TxtLeer
    \/ \E c \in {"xml", "txt"} : Insertar(c)
    \/ XmlFinalizar
    \/ TxtFinalizar

SpecAck == InitAck /\ [][NextAck]_vars

(***************************************************************************)
(* The acknowledgement as the partner polling the outbox sees it: the file *)
(* is opened with open(ruta, "w"), which creates it empty, its lines are   *)
(* written one by one through Python's buffered writer, and leaving the    *)
(* with block closes it.  What is on disk between open and close is a      *)
(* prefix of the lines, as long as the buffer's flushes made it.           *)
(***************************************************************************)
CuerpoDeCorrida(c) ==
    Cuerpo(Sorted(IdsDe(filas[c])),
           IF c = "xml" THEN EstadosPorId(filas[c]) ELSE EstadosPorCodigo(filas[c]))

CcDeCorrida(c) ==
    IF c = "xml" THEN CcXml(filas[c], archivo[c].nombre)
                 ELSE CcTxt(filas[c], archivo[c].nombre)

\* The acknowledgement of this run holding the first k lines.
RespuestaParcial(c, k) ==
    Respuesta(c, corrida[c], CcDeCorrida(c), SubSeq(CuerpoDeCorrida(c), 1, k), FALSE)

\* The lines of this run's acknowledgement that are on disk.
LineasEnDisco(c) ==
    CHOOSE k \in 0..Len(CuerpoDeCorrida(c)) : RespuestaParcial(c, k) \in respuestas

\* After the loop: the Excel report, then open(ruta_respuesta, "w").
AbrirRespuesta(c) ==
    /\ pc[c] = "finalizar"
    /\ \E okExcel \in BOOLEAN :
         IF okExcel
         THEN /\ respuestas' = respuestas \cup {RespuestaParcial(c, 0)}
              /\ pc' = [pc EXCEPT ![c] = "escribiendo"]
              /\ UNCHANGED <<nAcks, lugar>>
         ELSE ManejarFallido(c, corrida[c], nAcks[c])
    /\ UNCHANGED <<ledger, entorno, novedades, salidas, idx, filas, resultados, llamada,
                   nIntentos, historial, corrida, nDirectas>>

\* f.write of the following lines, up to a flush of the buffer before the
\* last line.
EscribirLineas(c) ==
    /\ pc[c] = "escribiendo"
    /\ \E k \in (LineasEnDisco(c) + 1)..(Len(CuerpoDeCorrida(c)) - 1) :
         respuestas' = (respuestas \ {RespuestaParcial(c, LineasEnDisco(c))})
                           \cup {RespuestaParcial(c, k)}
    /\ UNCHANGED <<ledger, entorno, lugar, novedades, salidas, nAcks, pc, idx, filas,
                   resultados, llamada, nIntentos, historial, corrida, nDirectas>>

\* The end of the with block closes the file with every line in it; the
\* source file is then moved to gestionados.
CerrarRespuesta(c) ==
    /\ pc[c] = "escribiendo"
    /\ respuestas' = (respuestas \ {RespuestaParcial(c, LineasEnDisco(c))})
                         \cup {RespuestaParcial(c, Len(CuerpoDeCorrida(c)))}
    /\ nAcks' = [nAcks EXCEPT ![c] = @ + 1]
    /\ lugar' = [lugar EXCEPT ![c] = "gestionados"]
    /\ pc' = [pc EXCEPT ![c] = "done"]
    /\ UNCHANGED <<ledger, entorno, novedades, salidas, idx, filas, resultados, llamada,
                   nIntentos, historial, corrida, nDirectas>>

NextEscritura ==
    \/ XmlLeer
    \/ TxtLeer
    \/ \E c \in {"xml", "txt"} : Insertar(c)
    \/ \E c \in {"xml", "txt"} : AbrirRespuesta(c)
    \/ \E c \in {"xml", "txt"} : EscribirLineas(c)
    \/ \E c \in {"xml", "txt"} : CerrarRespuesta(c)

SpecEscritura == InitAck /\ [][NextEscritura]_vars

(***************************************************************************)
(* The mappers on their own: one raw record is turned into the values of   *)
(* its ServicioDTO.  A raw record names its mapper, whether its concept is  *)
(* a collection, whether its sheet row is flagged as coins, its declared    *)
(* value, and its denominations, each with the figure beside it (a count    *)
(* in the TXT drawers and the cash4u columns, an amount in the XML          *)
(* denominations and the standard sheet's columns).                         *)
(***************************************************************************)
MaxDenoms == 2

UmbralConversionHelper == 1000
UmbralXml == 1000
UMBRAL_BILLETE == 2000
UmbralCash4u == 2000
UmbralMonedaCentavos == 10000
CentavosPorUnidad == 100

Mapeadores == {"txt", "xml_order", "xml_remit", "standard", "cash4u", "emergency"}
MapeadoresExcel == {"standard", "cash4u", "emergency"}
Denominaciones == {500, 1000, 1999, 2000, 15000}
Cifras == {2}
Declarados == {0, 7000, -7000}

\* The point of a record as adm_puntos has it: its key, and the key of its
\* fund or None.
PuntoPk == "P1"
None == "None"
Fondos == {None, "F1"}

ListasDeDenominaciones ==
    UNION {[1..n -> [deno : Denominaciones, cifra : Cifras]] : n \in 0..MaxDenoms}

\* An order element is a provision and a remit element a collection; the
\* other mappers read the concept from the record.
RegistrosCrudos ==
    {r \in [mapeador : Mapeadores, recoleccion : BOOLEAN, es_moneda : BOOLEAN,
            declarado : Declarados, denominaciones : ListasDeDenominaciones,
            cod_fondo : Fondos] :
        /\ r.mapeador \in {"xml_order", "emergency"} => ~r.recoleccion
        /\ r.mapeador = "xml_remit" => r.recoleccion
        /\ r.mapeador # "cash4u" => ~r.es_moneda
        /\ r.mapeador \notin {"standard", "cash4u"} => r.declarado = 0}

\* ConversionHelper.determinar_tipo_denominacion.
DeterminarTipoDenominacion(denominacion) ==
    IF denominacion >= UmbralConversionHelper THEN "BILLETE" ELSE "MONEDA"

\* The unit value the cash4u mapper compares: a coin row's denomination of
\* 10000 or more is int(deno / 100).
DenoCash4u(deno, es_moneda) ==
    IF es_moneda /\ deno >= UmbralMonedaCentavos THEN deno \div CentavosPorUnidad ELSE deno

\* The bucket a mapper adds a denomination to.
Clasificar(mapeador, deno, es_moneda) ==
    CASE mapeador = "txt" -> DeterminarTipoDenominacion(deno)
      [] mapeador = "standard" ->
            IF deno >= UMBRAL_BILLETE THEN "BILLETE" ELSE "MONEDA"
      [] mapeador = "cash4u" ->
            IF DenoCash4u(deno, es_moneda) >= UmbralCash4u THEN "BILLETE" ELSE "MONEDA"
      [] OTHER -> IF deno >= UmbralXml THEN "BILLETE" ELSE "MONEDA"

\* What a denomination adds to its bucket: denomination times count in the
\* TXT drawers and the cash4u columns, the amount as given elsewhere.
Subtotal(mapeador, d, es_moneda) ==
    CASE mapeador = "txt" -> d.deno * d.cifra
      [] mapeador = "cash4u" -> d.cifra * DenoCash4u(d.deno, es_moneda)
      [] OTHER -> d.cifra

RECURSIVE SumaDe(_, _, _)
SumaDe(r, ds, clase) ==
    IF ds = <<>> THEN 0
    ELSE (IF Clasificar(r.mapeador, ds[1].deno, r.es_moneda) = clase
          THEN Subtotal(r.mapeador, ds[1], r.es_moneda) ELSE 0)
         + SumaDe(r, Tail(ds), clase)

Clases(r) ==
    [n \in DOMAIN r.denominaciones |->
        Clasificar(r.mapeador, r.denominaciones[n].deno, r.es_moneda)]

ValoresDto(concepto, recoleccion, billete, moneda, servicio, clases) ==
    [cod_concepto |-> concepto, recoleccion |-> recoleccion, valor_billete |-> billete,
     valor_moneda |-> moneda, valor_servicio |-> servicio, clases |-> clases]

\* mapear_desde_txt_tipo2: the drawers are added up, then a record that is
\* not a provision has both values set to 0; cod_concepto is always 3.
MapearDesdeTxtTipo2(r) ==
    LET b == IF r.recoleccion THEN 0 ELSE SumaDe(r, r.denominaciones, "BILLETE")
        m == IF r.recoleccion THEN 0 ELSE SumaDe(r, r.denominaciones, "MONEDA")
    IN ValoresDto(3, r.recoleccion, b, m, b + m, Clases(r))

\* mapear_desde_xml_order: concept 2, values from the denominations.
MapearDesdeXmlOrder(r) ==
    LET b == SumaDe(r, r.denominaciones, "BILLETE")
        m == SumaDe(r, r.denominaciones, "MONEDA")
    IN ValoresDto(2, FALSE, b, m, b + m, Clases(r))

\* mapear_desde_xml_remit: concept 1, every value Decimal('0').
MapearDesdeXmlRemit(r) == ValoresDto(1, TRUE, 0, 0, 0, <<>>)

\* _crear_dtos without the assignment of the declared value to valor_billete
\* (variant).
CrearDtosSinAjuste(r) ==
    LET b == SumaDe(r, r.denominaciones, "BILLETE")
        m == SumaDe(r, r.denominaciones, "MONEDA")
        final == IF b + m > 0 THEN b + m ELSE r.declarado
    IN ValoresDto(IF r.recoleccion THEN 1 ELSE 2, r.recoleccion, b, m, final, Clases(r))

\* _procesar_fila_oficina and _crear_dtos: the computed values, or the
\* declared VALOR_TOTAL when nothing was computed, whatever the MODALIDAD.
CrearDtos(r) ==
    LET b == SumaDe(r, r.denominaciones, "BILLETE")
        m == SumaDe(r, r.denominaciones, "MONEDA")
        final == IF b + m > 0 THEN b + m ELSE r.declarado
        b2 == IF b + m = 0 /\ r.declarado > 0 THEN r.declarado ELSE b
    IN ValoresDto(IF r.recoleccion THEN 1 ELSE 2, r.recoleccion, b2, m, final, Clases(r))

\* Cash4uExcelMapper.mapear_a_dtos: a collection row carries the collected
\* value as valor_servicio and valor_billete; a provision row adds up its
\* denomination columns.
MapearCash4uFila(r) ==
    IF r.recoleccion
    THEN ValoresDto(1, TRUE, IF r.declarado > 0 THEN r.declarado ELSE 0, 0,
                    r.declarado, <<>>)
    ELSE LET b == SumaDe(r, r.denominaciones, "BILLETE")
             m == SumaDe(r, r.denominaciones, "MONEDA")
         IN ValoresDto(2, FALSE, b, m, b + m, Clases(r))

\* EmergencyMapper.mapear_a_dtos: kits of coin and of banknotes, each a
\* quantity times the unit value read from the header rows; always concept 2.
MapearEmergencyFila(r) ==
    LET ds == r.denominaciones
        m == IF Len(ds) >= 1 THEN ds[1].cifra * ds[1].deno ELSE 0
        b == IF Len(ds) >= 2 THEN ds[2].cifra * ds[2].deno ELSE 0
    IN ValoresDto(2, FALSE, b, m, m + b, <<>>)

\* ServicioDTO.__post_init__ on the monetary fields: a negative value raises
\* ValueError and no DTO comes out of the mapper.
PostInit(dto) ==
    dto.valor_billete >= 0 /\ dto.valor_moneda >= 0 /\ dto.valor_servicio >= 0

\* estado_transaccion of the TransaccionDTO each mapper builds.
EstadoTransaccionDe(mapeador) ==
    CASE mapeador = "xml_order" -> "ProvisionEnProceso"
      [] mapeador = "emergency" -> "ProvisionEnProceso"
      [] OTHER -> "RegistroTesoreria"

RutaDto(origen, tipo_origen, destino, tipo_destino) ==
    [cod_punto_origen |-> origen, indicador_tipo_origen |-> tipo_origen,
     cod_punto_destino |-> destino, indicador_tipo_destino |-> tipo_destino]

\* punto_info['cod_fondo'] or the point's key.
FondoOPunto(cod_fondo) == IF cod_fondo # None THEN cod_fondo ELSE PuntoPk

\* Origin and destination as the mapper writes them in the ServicioDTO.  The
\* spreadsheet mappers write the literal "FONDO" on the fund side.
RutaDelMapeador(mapeador, cod_concepto, cod_fondo) ==
    CASE mapeador = "txt" ->
            RutaDto(FondoOPunto(cod_fondo), IF cod_fondo # None THEN "F" ELSE "P",
                    PuntoPk, "P")
      [] mapeador = "xml_order" -> RutaDto(FondoOPunto(cod_fondo), "F", PuntoPk, "P")
      [] mapeador = "xml_remit" -> RutaDto(PuntoPk, "P", FondoOPunto(cod_fondo), "F")
      [] OTHER -> IF cod_concepto = 1 THEN RutaDto(PuntoPk, "P", "FONDO", "F")
                                      ELSE RutaDto("FONDO", "F", PuntoPk, "P")

\* procesar_archivo_excel before the insertion: the point is looked up and
\* both sides are rewritten from punto_info.
RutaResuelta(ruta, cod_concepto, cod_fondo) ==
    IF cod_concepto = 1
    THEN RutaDto(PuntoPk, "P", FondoOPunto(cod_fondo),
                 IF cod_fondo # None THEN "F" ELSE "P")
    ELSE RutaDto(FondoOPunto(cod_fondo), IF cod_fondo # None THEN "F" ELSE "P",
                 PuntoPk, "P")

\* The route of the pair handed to insertar_servicio_con_transaccion.
RutaAlGateway(r, cod_concepto) ==
    LET ruta == RutaDelMapeador(r.mapeador, cod_concepto, r.cod_fondo)
    IN IF r.mapeador \in MapeadoresExcel
       THEN RutaResuelta(ruta, cod_concepto, r.cod_fondo)
       ELSE ruta

\* The pair of DTOs of a record as it reaches the gateway.
DtosAlGateway(r, dto) ==
    dto @@ RutaAlGateway(r, dto.cod_concepto)
        @@ [valido |-> PostInit(dto),
            estado_transaccion |-> EstadoTransaccionDe(r.mapeador)]

Mapea(mapeador, dto) ==
    /\ argumento \in RegistrosCrudos
    /\ argumento.mapeador = mapeador
    /\ resultado = Ninguno
    /\ resultado' = DtosAlGateway(argumento, dto)
    /\ UNCHANGED <<modo, perifericos, trabajador, argumento, archivo, interrupciones, reloj, ledger,
                   ficheros, pc, idx, filas, resultados, llamada, nIntentos, historial,
                   corrida, nDirectas>>

MapearTxt == Mapea("txt", MapearDesdeTxtTipo2(argumento))
MapearXmlOrder == Mapea("xml_order", MapearDesdeXmlOrder(argumento))
MapearXmlRemit == Mapea("xml_remit", MapearDesdeXmlRemit(argumento))
MapearStandard == Mapea("standard", CrearDtos(argumento))
MapearCash4u == Mapea("cash4u", MapearCash4uFila(argumento))
MapearEmergency == Mapea("emergency", MapearEmergencyFila(argumento))

InitMapeo ==
    /\ modo = "once"
    /\ archivo = [c \in Canales |-> SinArchivo(c)]
    /\ argumento \in RegistrosCrudos
    /\ InitComun

NextMapeo ==
    \/ MapearTxt
    \/ MapearXmlOrder
    \/ MapearXmlRemit
    \/ MapearStandard
    \/ MapearCash4u
    \/ MapearEmergency

SpecMapeo == InitMapeo /\ [][NextMapeo]_vars

(***************************************************************************)
(* Point resolution.  A point code is the sequence of its '-'-separated    *)
(* parts; puntos_info is the set of its keys (the info found under a key    *)
(* is written as the key); adm_puntos is a set of rows.                     *)
(***************************************************************************)
NoEncontrado == <<>>

Codigos ==
    { <<"52", "SUC", "0075">>, <<"52", "0075">>, <<"0075">>, <<"SUC", "0075">>,
      <<"99", "SUC", "0075">>, <<"45", "0075">> }

Claves == { <<"52", "SUC", "0075">>, <<"0075">>, <<"45", "0075">>, <<"52", "0075">> }

FilaAdm(punto, cliente, pCliente) ==
    [cod_punto |-> punto, cod_cliente |-> cliente, cod_p_cliente |-> pCliente]

FilasAdm ==
    { FilaAdm(<<"0075">>, "45", <<"A">>), FilaAdm(<<"45", "0075">>, "45", <<"0075">>),
      FilaAdm(<<"0075">>, "46", <<"0075">>) }

Consultas ==
    {[fn |-> "buscar", codigo |-> c, puntos_info |-> ps, tabla |-> {}] :
        c \in Codigos, ps \in SUBSET Claves}
    \cup
    {[fn |-> "obtener", codigo |-> c, puntos_info |-> {}, tabla |-> t] :
        c \in Codigos, t \in SUBSET FilasAdm}

\* cc_to_cliente: CLIENTE_TO_CC inverted; "" when the CC code is not mapped.
CcToCliente(cc) ==
    CASE cc = "52" -> "45"
      [] cc = "01" -> "46"
      [] cc = "02" -> "47"
      [] cc = "23" -> "48"
      [] OTHER -> ""

\* "-SUC-" in codigo: a part SUC with a part on each side.
PosicionesSuc(c) == {i \in 2..(Len(c) - 1) : c[i] = "SUC"}
TieneSuc(c) == PosicionesSuc(c) # {}

\* codigo.split("-SUC-")[-1]
DespuesDeSuc(c) ==
    LET i == CHOOSE k \in PosicionesSuc(c) : \A j \in PosicionesSuc(c) : j <= k
    IN SubSeq(c, i + 1, Len(c))

\* codigo.replace("-SUC-", "-")
SinSuc(c) == [k \in 1..(Len(c) - Cardinality(PosicionesSuc(c))) |->
                 c[CHOOSE i \in DOMAIN c :
                       /\ i \notin PosicionesSuc(c)
                       /\ Cardinality({j \in 1..i : j \notin PosicionesSuc(c)}) = k]]

\* puntos_info.get(clave, {})
Get(puntos_info, clave) == IF clave \in puntos_info THEN clave ELSE NoEncontrado

\* The key of the third step: "<client of the CC code>-<rest of the code>".
CodigoConvertido(c) ==
    LET partes == SinSuc(c)
    IN IF Len(partes) >= 2 /\ CcToCliente(partes[1]) # ""
       THEN <<CcToCliente(partes[1])>> \o Tail(partes)
       ELSE NoEncontrado

\* The translation of the CC code tried before the numeric suffix (variant).
BuscarPuntoConversionPrimero(codigo_raw, puntos_info) ==
    IF Get(puntos_info, codigo_raw) # NoEncontrado
    THEN Get(puntos_info, codigo_raw)
    ELSE IF CodigoConvertido(codigo_raw) # NoEncontrado
            /\ Get(puntos_info, CodigoConvertido(codigo_raw)) # NoEncontrado
    THEN Get(puntos_info, CodigoConvertido(codigo_raw))
    ELSE IF TieneSuc(codigo_raw)
            /\ Get(puntos_info, DespuesDeSuc(codigo_raw)) # NoEncontrado
    THEN Get(puntos_info, DespuesDeSuc(codigo_raw))
    ELSE NoEncontrado

\* _buscar_punto_con_fallbacks
BuscarPuntoConFallbacks(codigo_raw, puntos_info) ==
    IF Get(puntos_info, codigo_raw) # NoEncontrado
    THEN Get(puntos_info, codigo_raw)
    ELSE IF TieneSuc(codigo_raw)
            /\ Get(puntos_info, DespuesDeSuc(codigo_raw)) # NoEncontrado
    THEN Get(puntos_info, DespuesDeSuc(codigo_raw))
    ELSE IF CodigoConvertido(codigo_raw) # NoEncontrado
            /\ Get(puntos_info, CodigoConvertido(codigo_raw)) # NoEncontrado
    THEN Get(puntos_info, CodigoConvertido(codigo_raw))
    ELSE NoEncontrado

\* _limpiar_codigo_punto_xml
LimpiarCodigoPuntoXml(entity_ref) ==
    IF TieneSuc(entity_ref) THEN DespuesDeSuc(entity_ref)
    ELSE IF Len(entity_ref) >= 2 /\ entity_ref[1] = "SUC" THEN Tail(entity_ref)
    ELSE entity_ref

\* mapear_desde_xml_order: the CC code is the first part of the reference
\* when it has two parts or more ("" stands for None).
CcDeReferencia(entity_ref) ==
    IF Len(SinSuc(entity_ref)) >= 2 THEN SinSuc(entity_ref)[1] ELSE ""

EsDigito(parte) == parte \in {"52", "0075", "45", "46", "99", "01"}

\* The rows of the first query (cod_punto and cod_cliente) and of the
\* fallback query (cod_cliente and cod_p_cliente).
FilasDirectas(tabla, numero, cliente) ==
    {r \in tabla : r.cod_punto = numero /\ r.cod_cliente = cliente}
FilasFallback(tabla, numero, cliente) ==
    {r \in tabla : r.cod_cliente = cliente /\ r.cod_p_cliente = numero}

\* _obtener_info_completa_punto_sin_cliente
ObtenerInfoCompletaPuntoSinCliente(codigo_punto_xml, codigo_cliente_xml, tabla) ==
    LET partes == SinSuc(codigo_punto_xml)
        extrae == /\ codigo_cliente_xml = "" /\ Len(codigo_punto_xml) >= 2
                  /\ Len(partes) = 2 /\ EsDigito(partes[1]) /\ EsDigito(partes[2])
        cc == IF extrae THEN partes[1] ELSE codigo_cliente_xml
        numero == IF extrae THEN <<partes[2]>> ELSE codigo_punto_xml
        cliente == CcToCliente(cc)
    IN IF cc = "" \/ cliente = "" THEN NoEncontrado
       ELSE IF FilasDirectas(tabla, numero, cliente) # {}
       THEN CHOOSE r \in FilasDirectas(tabla, numero, cliente) : TRUE
       ELSE IF FilasFallback(tabla, numero, cliente) # {}
       THEN CHOOSE r \in FilasFallback(tabla, numero, cliente) : TRUE
       ELSE NoEncontrado

Resuelve(fn, res) ==
    /\ argumento \in Consultas
    /\ argumento.fn = fn
    /\ resultado = Ninguno
    /\ resultado' = [punto |-> res]
    /\ UNCHANGED <<modo, perifericos, trabajador, argumento, archivo, interrupciones, reloj, ledger,
                   ficheros, pc, idx, filas, resultados, llamada, nIntentos, historial,
                   corrida, nDirectas>>

BuscarPunto ==
    Resuelve("buscar", BuscarPuntoConFallbacks(argumento.codigo, argumento.puntos_info))

ObtenerPunto ==
    Resuelve("obtener",
             ObtenerInfoCompletaPuntoSinCliente(LimpiarCodigoPuntoXml(argumento.codigo),
                                                CcDeReferencia(argumento.codigo),
                                                argumento.tabla))

InitPunto ==
    /\ modo = "once"
    /\ archivo = [c \in Canales |-> SinArchivo(c)]
    /\ argumento \in Consultas
    /\ InitComun

NextPunto == BuscarPunto \/ ObtenerPunto

SpecPunto == InitPunto /\ [][NextPunto]_vars

(***************************************************************************)
(* The name of the acknowledgement file: TR2_VATCO_<cc><ts>.txt.           *)
(***************************************************************************)
SegC4U52 == <<"C", "4", "U", "-", "5", "2", "-", "V">>
Fecha0512 == <<"2", "0", "2", "5", "0", "5", "1", "2">>
FechaMes13 == <<"2", "0", "2", "5", "1", "3", "4", "0">>
FechaBisiesto == <<"2", "0", "2", "4", "0", "2", "2", "9">>
Fecha29Feb25 == <<"2", "0", "2", "5", "0", "2", "2", "9">>
Hora16400 == <<"1", "6", "4", "0", "0">>
Hora164009 == <<"1", "6", "4", "0", "0", "9">>
ExtXml == <<".", "x", "m", "l">>
ExtXmlMayus == <<".", "X", "M", "L">>
ExtTxt == <<".", "t", "x", "t">>

\* Source file names: with date and time segments (well formed, with a
\* month 13, a 29th of February, a time of five digits, an upper-case
\* extension, without the C4U segment) and without them.
NombresFuente ==
    { << <<"I">>, SegC4U52, <<"t">>, Fecha0512, Hora164009 \o ExtXml >>,
      << <<"I">>, SegC4U52, <<"t">>, FechaMes13, Hora164009 \o ExtXml >>,
      << <<"I">>, SegC4U52, <<"t">>, Fecha0512, Hora164009 \o ExtXmlMayus >>,
      << <<"I">>, <<"p">>, <<"t">>, Fecha0512, Hora164009 \o ExtXml >>,
      << <<"I">>, SegC4U52, <<"t">>, FechaBisiesto, Hora164009 \o ExtXml >>,
      << <<"I">>, SegC4U52, <<"t">>, Fecha29Feb25, Hora164009 \o ExtXml >>,
      << <<"I">>, SegC4U52, <<"t">>, Fecha0512, Hora16400 \o ExtXml >>,
      << <<"I">>, SegC4U52, <<"t">> \o ExtXml >>,
      << <<"I">>, SegC4U52, <<"t">>, FechaMes13, Hora164009 \o ExtTxt >>,
      << <<"I">>, SegC4U52, <<"t">>, Fecha0512, Hora164009 \o ExtTxt >>,
      << <<"I">>, <<"p">>, <<"t">>, Fecha0512, Hora164009 \o ExtTxt >>,
      << <<"I">>, SegC4U52, <<"t">> \o ExtTxt >> }

\* datetime.now().strftime('%y%m%d%H%M%S') at the time of the call.
Ahoras == { <<"2", "6", "1", "1", "0", "1", "0", "9", "3", "0", "0", "0">>, <<"2", "6", "1", "1", "0", "1", "0", "9", "3", "0", "0", "1">>,
            <<"2", "5", "0", "5", "1", "2", "1", "6", "4", "0", "0", "9">> }

TermineCon(s, suf) ==
    /\ Len(s) >= Len(suf)
    /\ SubSeq(s, Len(s) - Len(suf) + 1, Len(s)) = suf

\* str.lower() on the characters of the extensions.
Lower(s) ==
    [k \in DOMAIN s |->
        CASE s[k] = "X" -> "x" [] s[k] = "M" -> "m" [] s[k] = "L" -> "l"
          [] s[k] = "T" -> "t" [] OTHER -> s[k]]

\* str.isdigit()
IsDigit(s) == s # <<>> /\ \A k \in DOMAIN s : s[k] \in Digitos

DigitoANumero(d) ==
    CASE d = "0" -> 0 [] d = "1" -> 1 [] d = "2" -> 2 [] d = "3" -> 3 [] d = "4" -> 4
      [] d = "5" -> 5 [] d = "6" -> 6 [] d = "7" -> 7 [] d = "8" -> 8 [] OTHER -> 9

RECURSIVE NumeroDe(_)
NumeroDe(s) ==
    IF s = <<>> THEN 0
    ELSE 10 * NumeroDe(SubSeq(s, 1, Len(s) - 1)) + DigitoANumero(s[Len(s)])

DiasDelMes(anio, mes) ==
    IF mes = 2
    THEN IF anio % 4 = 0 /\ (anio % 100 # 0 \/ anio % 400 = 0) THEN 29 ELSE 28
    ELSE IF mes \in {4, 6, 9, 11} THEN 30 ELSE 31

\* Whether datetime.strptime(fecha + hora, '%Y%m%d%H%M%S') accepts the 8 and
\* 6 digits.
StrptimeAcepta(fecha, hora) ==
    LET anio == NumeroDe(SubSeq(fecha, 1, 4))
        mes == NumeroDe(SubSeq(fecha, 5, 6))
        dia == NumeroDe(SubSeq(fecha, 7, 8))
    IN /\ anio >= 1 /\ mes \in 1..12 /\ dia \in 1..DiasDelMes(anio, mes)
       /\ NumeroDe(SubSeq(hora, 1, 2)) <= 23
       /\ NumeroDe(SubSeq(hora, 3, 4)) <= 59
       /\ NumeroDe(SubSeq(hora, 5, 6)) <= 61

\* build_timestamp_for_response
BuildTimestampForResponse(xml_name, ahora) ==
    IF /\ Len(xml_name) >= 5
       /\ IsDigit(xml_name[4]) /\ Len(xml_name[4]) = 8
       /\ TermineCon(Lower(xml_name[5]), ExtXml)
       /\ IsDigit(SubSeq(xml_name[5], 1, Len(xml_name[5]) - 4))
       /\ Len(xml_name[5]) - 4 = 6
       /\ StrptimeAcepta(xml_name[4], SubSeq(xml_name[5], 1, 6))
    THEN SubSeq(xml_name[4], 3, 8) \o SubSeq(xml_name[5], 1, 6)
    ELSE ahora

NombreRespuesta(cc, ts) == [prefijo |-> "TR2", socio |-> "VATCO", cc |-> cc, ts |-> ts]

\* The name the XML processor gives the acknowledgement: "00" when every id
\* has status "2", else the code of the file name.
NombreRespuestaXml(a) ==
    NombreRespuesta(IF a.todos_rechazados THEN CC00 ELSE ExtractCcFromFilename(a.nombre),
                    BuildTimestampForResponse(a.nombre, a.ahora))

\* TXTProcessor.generar_respuesta_por_id with the cc_override of
\* procesar_archivo_txt: the CC code of the client of the first point that
\* has one, else the code of the file name.
NombreRespuestaTxt(a) ==
    NombreRespuesta(IF a.cc_cliente # CC00 THEN a.cc_cliente
                    ELSE ExtractCcFromFilename(a.nombre),
                    BuildTimestampForResponse(a.nombre, a.ahora))

\* The XML processor is given *.xml files and the TXT processor *.txt files.
Nombramientos ==
    {a \in [canal : {"xml", "txt"}, nombre : NombresFuente, ahora : Ahoras,
            todos_rechazados : BOOLEAN, cc_cliente : {CC00, <<"0", "1">>}] :
        /\ a.canal = "xml" =>
              /\ TermineCon(Lower(a.nombre[Len(a.nombre)]), ExtXml)
              /\ a.cc_cliente = CC00
        /\ a.canal = "txt" =>
              /\ TermineCon(Lower(a.nombre[Len(a.nombre)]), ExtTxt)
              /\ ~a.todos_rechazados}

Nombra(canal, nombre) ==
    /\ argumento \in Nombramientos
    /\ argumento.canal = canal
    /\ resultado = Ninguno
    /\ resultado' = nombre
    /\ UNCHANGED <<modo, perifericos, trabajador, argumento, archivo, interrupciones, reloj, ledger,
                   ficheros, pc, idx, filas, resultados, llamada, nIntentos, historial,
                   corrida, nDirectas>>

NombrarXml == Nombra("xml", NombreRespuestaXml(argumento))
NombrarTxt == Nombra("txt", NombreRespuestaTxt(argumento))

InitNombre ==
    /\ modo = "once"
    /\ archivo = [c \in Canales |-> SinArchivo(c)]
    /\ argumento \in Nombramientos
    /\ InitComun

NextNombre == NombrarXml \/ NombrarTxt

SpecNombre == InitNombre /\ [][NextNombre]_vars

(***************************************************************************)
(* Two input files, one processed after the other or each by its own       *)
(* watcher: both acknowledgements go to carpeta_respuesta_txt.             *)
(***************************************************************************)
NombreRespuestaDe(a) ==
    IF a.canal = "xml" THEN NombreRespuestaXml(a) ELSE NombreRespuestaTxt(a)

\* The clock does not go back between the two calls.
NoDespues(antes, luego) ==
    ~LexMenor([k \in DOMAIN luego |-> DigitoANumero(luego[k])],
              [k \in DOMAIN antes |-> DigitoANumero(antes[k])])

ParesDeArchivos ==
    {par \in Nombramientos \X Nombramientos :
        /\ par[1].nombre # par[2].nombre
        /\ NoDespues(par[1].ahora, par[2].ahora)}

NombrarPrimero ==
    /\ argumento \in ParesDeArchivos
    /\ resultado = Ninguno
    /\ resultado' = [nombres |-> <<NombreRespuestaDe(argumento[1])>>]
    /\ UNCHANGED <<modo, perifericos, trabajador, argumento, archivo, interrupciones, reloj, ledger,
                   ficheros, pc, idx, filas, resultados, llamada, nIntentos, historial,
                   corrida, nDirectas>>

NombrarSegundo ==
    /\ argumento \in ParesDeArchivos
    /\ resultado # Ninguno
    /\ Len(resultado.nombres) = 1
    /\ resultado' = [nombres |-> Append(resultado.nombres, NombreRespuestaDe(argumento[2]))]
    /\ UNCHANGED <<modo, perifericos, trabajador, argumento, archivo, interrupciones, reloj, ledger,
                   ficheros, pc, idx, filas, resultados, llamada, nIntentos, historial,
                   corrida, nDirectas>>

InitDosNombres ==
    /\ modo = "once"
    /\ archivo = [c \in Canales |-> SinArchivo(c)]
    /\ argumento \in ParesDeArchivos
    /\ InitComun

NextDosNombres == NombrarPrimero \/ NombrarSegundo

SpecDosNombres == InitDosNombres /\ [][NextDosNombres]_vars

(***************************************************************************)
(* Properties.                                                             *)
(***************************************************************************)
Llamadas == DOMAIN historial
FilasDe(tabla, pedido) == {r \in tabla : r.pedido = pedido}
SinFallas(pedido) ==
    \A i \in Llamadas : historial[i].pedido = pedido => ~historial[i].falla

FilasDeIntento(n) ==
    {r \in servicios \cup transacciones \cup pendientes : r.intento = n}

\* C6: a call whose service and transaction DTOs carry different branch
\* codes ends in the validation error without the stored procedure having
\* run, and no row of that call is in the ledger or in the open transaction.
C6_InconsistenciaNoEscribe ==
    /\ \A j \in Llamadas :
          historial[j].sucS # historial[j].sucT =>
             /\ historial[j].res = "Inconsistencia"
             /\ ~historial[j].sp
             /\ FilasDeIntento(historial[j].intento) = {}
    /\ \A h \in Hilos : llamada[h] # Ninguno => llamada[h].sucS = llamada[h].sucT

\* A call with different branch codes has returned.
C6_Testigo ==
    \E j \in Llamadas :
        /\ historial[j].sucS # historial[j].sucT
        /\ historial[j].res = "Inconsistencia"

\* No call on the order, finished or under way, has met a database failure.
SinFallasEnCurso(pedido) ==
    /\ SinFallas(pedido)
    /\ \A h \in Hilos :
          (llamada[h] # Ninguno /\ llamada[h].pedido = pedido) => ~llamada[h].falla

\* C2: whatever the interleaving of the channel workers, the ledger never
\* holds more than one service row of a business order id (the database not
\* failing on any call of that id).
C2_UnaFilaPorPedido ==
    \A r1 \in servicios, r2 \in servicios :
        (r1.pedido = r2.pedido /\ SinFallasEnCurso(r1.pedido)) => r1 = r2

\* C3: a record of a file never gets a second service row, however often
\* the processing of the file is stopped and started again (the database not
\* failing on any call of its ids).
C3_RegistroSinSegundaFila ==
    \A r1 \in servicios, r2 \in servicios :
        (/\ r1.origen = r2.origen
         /\ r1.origen.canal \in Canales
         /\ SinFallas(r1.pedido)
         /\ SinFallas(r2.pedido)) => r1 = r2

YaExiste(r) == r.error = "Servicio ya existe (duplicado)"

\* C4: a record whose order already exists is a success: its result is not
\* flagged as failed, and a spreadsheet whose rows all were inserted or
\* already existed leaves no NOVEDADES copy.
C4_YaExisteEsExito ==
    /\ \A c \in Canales : \A n \in DOMAIN resultados[c] :
          YaExiste(resultados[c][n]) => resultados[c][n].exitoso
    /\ (/\ pc["excel"] = "done"
        /\ \A n \in DOMAIN resultados["excel"] :
              resultados["excel"][n].exitoso \/ YaExiste(resultados["excel"][n]))
          => ~novedades["excel"]

ResultadosDe(c, i) ==
    {resultados[c][n] : n \in {m \in DOMAIN resultados[c] : resultados[c][m].numero_pedido = i}}

\* The acknowledgement the finished run of channel c wrote on its main path.
RespuestaDeCorrida(c) ==
    {r \in respuestas : r.canal = c /\ r.corrida = corrida[c] /\ ~r.fallido}

\* C7: in the acknowledgement of a processed file an id has status "1"
\* exactly when its records were inserted or already existed, and "2"
\* exactly when one failed or was rejected.
C7_EstadoSegunInsercion ==
    \A c \in {"xml", "txt"} :
        (pc[c] = "done" /\ lugar[c] = "gestionados") =>
           \A r \in RespuestaDeCorrida(c) : \A n \in DOMAIN r.cuerpo :
               LET i == r.cuerpo[n][1]
                   est == r.cuerpo[n][2]
                   exito == \A x \in ResultadosDe(c, i) : x.exitoso \/ YaExiste(x)
               IN /\ est \in {"1", "2"}
                  /\ est = "1" <=> exito

\* C8: an acknowledgement whose lines all carry status "2" has the code "00"
\* in its name.
C8_SoloRechazosLlevaCC00 ==
    \A r \in respuestas :
        (\A n \in DOMAIN r.cuerpo : r.cuerpo[n][2] = "2") => r.cc = CC00

\* C9: the body of the acknowledgement of a processed file has one line per
\* distinct id of the file, in ascending lexicographic order of the ids.
C9_CuerpoOrdenado ==
    \A r \in respuestas :
        ~r.fallido =>
           LET fs == archivo[r.canal].regs
           IN /\ Len(r.cuerpo) = Cardinality(IdsDe(fs))
              /\ {r.cuerpo[n][1] : n \in DOMAIN r.cuerpo} = IdsDe(fs)
              /\ \A n \in DOMAIN r.cuerpo : r.cuerpo[n][2] \in {"1", "2"}
              /\ \A n \in 1..(Len(r.cuerpo) - 1) :
                    LexMenor(r.cuerpo[n][1], r.cuerpo[n + 1][1])

\* The file with ids 200, 10, 5 and statuses 1, 2, 1 is acknowledged with
\* the lines 10,2 / 200,1 / 5,1.
C9_Testigo ==
    \E r \in respuestas :
        /\ ~r.fallido
        /\ archivo[r.canal].regs =
              <<Reg(P200, TRUE, FALSE, "45"), Reg(P10, FALSE, FALSE, "45"),
                Reg(P5, TRUE, FALSE, "45")>>
        /\ r.cuerpo = << <<P10, "2">>, <<P200, "1">>, <<P5, "1">> >>

\* C10: a file that was moved to the archive or to the errors folder has had
\* exactly one acknowledgement written in that run.
C10_MovidoConUnaRespuesta ==
    \A c \in Canales :
        lugar[c] \in {"gestionados", "errores"} => nAcks[c] = 1

\* The acknowledgements written for the file of channel c.
RespuestasDe(c) == {r \in respuestas : r.canal = c}

\* C11: a file that cannot be parsed or is structurally empty ends in the
\* errors folder, acknowledged with exactly one line that carries the file
\* name as business id and status "2".
C11_ArchivoInvalidoRechazado ==
    \A c \in Canales :
        (archivo[c].tipo \in {"vacio", "ilegible"} /\ pc[c] = "done") =>
           /\ lugar[c] = "errores"
           /\ Cardinality(RespuestasDe(c)) = 1
           /\ \A r \in RespuestasDe(c) : r.cuerpo = << <<archivo[c].nombre, "2">> >>

C13_TodoArchivoSeProcesa ==
    \A c \in Canales :
        (lugar[c] = "entrada") ~>
            (trabajador[c] \in {"vivo", "fin"} /\ lugar[c] # "entrada")
\* The ledger rows and the gateway calls that come from row n of channel c.
EscritoDeFila(c, n) ==
    {r \in servicios \cup transacciones \cup pendientes :
        r.origen = [canal |-> c, fila |-> n]}

FilasDeEntrada ==
    FilasDeHoja(archivo["excel"].regs, DOMAIN archivo["excel"].regs)

\* C15: for a spreadsheet with both successful and failed records, every
\* input row is retained in exactly one output: the rows whose record
\* succeeded are the rows of the GESTIONADOS copy, every other row is in the
\* NOVEDADES copy, and the report gives a reason for each of those.
C15_CadaFilaEnUnaSalida ==
    (pc["excel"] = "done" /\ archivo["excel"].tipo = "datos"
        /\ ExitosasMap # {} /\ FilasDeEntrada \ ExitosasMap # {}) =>
       /\ salidas.gestionados = ExitosasMap
       /\ salidas.novedades = FilasDeEntrada \ ExitosasMap
       /\ salidas.gestionados \cap salidas.novedades = {}
       /\ salidas.novedades \subseteq salidas.reporte
\* C16: every ServicioDTO a mapper builds for a collection has valor_billete,
\* valor_moneda and valor_servicio equal to 0, whatever denominations or
\* declared value the input carries.
C16_RecoleccionEnCeros ==
    (resultado # Ninguno /\ resultado.recoleccion) =>
        /\ resultado.valor_billete = 0
        /\ resultado.valor_moneda = 0
        /\ resultado.valor_servicio = 0

\* The unit value after the division of a coin-flagged value of 10000 or more.
ValorUnitario(deno, es_moneda) ==
    IF es_moneda /\ deno >= 10000 THEN deno \div 100 ELSE deno

\* C17: in every channel a denomination is added to the banknote bucket
\* exactly when its unit value, divided by 100 first when it is coin-flagged
\* and at least 10000, is at least 2000.
C17_BilleteDesde2000 ==
    resultado # Ninguno =>
        \A n \in DOMAIN resultado.clases :
            (resultado.clases[n] = "BILLETE") <=>
                (ValorUnitario(argumento.denominaciones[n].deno, argumento.es_moneda)
                    >= 2000)
SinExtension(seg) ==
    IF \E k \in DOMAIN seg : seg[k] = "."
    THEN SubSeq(seg, 1, (CHOOSE k \in DOMAIN seg :
                            seg[k] = "." /\ \A j \in 1..(k - 1) : seg[j] # ".") - 1)
    ELSE seg

\* The source file name carries a date and a time: its fourth segment is a
\* date of 8 digits and its fifth, up to the extension, a time of 6 digits.
NombreConFechaHora(nombre) ==
    /\ Len(nombre) >= 5
    /\ IsDigit(nombre[4]) /\ Len(nombre[4]) = 8
    /\ IsDigit(SinExtension(nombre[5])) /\ Len(SinExtension(nombre[5])) = 6
    /\ StrptimeAcepta(nombre[4], SinExtension(nombre[5]))

\* C19: the acknowledgement file is named TR2_VATCO_<cc><ts>.txt; cc is the
\* two-digit code at its fixed place in the source file name, "00" when it
\* is not there (a batch whose ids are all rejected aside); ts is the twelve
\* digits YYMMDDHHMMSS of the date and time in the source file name, and
\* the current time only when the name carries none.
C19_NombreDeRespuesta ==
    (resultado # Ninguno /\ argumento \in Nombramientos) =>
        /\ resultado.prefijo = "TR2" /\ resultado.socio = "VATCO"
        /\ Len(resultado.cc) = 2 /\ Len(resultado.ts) = 12
        /\ ~argumento.todos_rechazados =>
               resultado.cc = ExtractCcFromFilename(argumento.nombre)
        /\ resultado.ts =
              IF NombreConFechaHora(argumento.nombre)
              THEN SubSeq(argumento.nombre[4], 3, 8) \o SinExtension(argumento.nombre[5])
              ELSE argumento.ahora
\* C20: a call whose existence query fails goes on to the stored procedure:
\* it never returns AlreadyExists and never ends without the procedure
\* having been executed.
C20_ConsultaFallidaInserta ==
    /\ \A j \in Llamadas :
          historial[j].fallaConsulta =>
              /\ historial[j].sp
              /\ historial[j].res \in {"OrderId", "ErrorBD"}
    /\ \A h \in Hilos :
          (llamada[h] # Ninguno /\ llamada[h].fallaConsulta) =>
              pc[h] \in {"sp", "commit", "rollback"}

\* The query failed for an order that was in the ledger, and a second row
\* of the order was inserted.
C20_Testigo ==
    \E j \in Llamadas :
        /\ historial[j].fallaConsulta
        /\ historial[j].res = "OrderId"
        /\ Cardinality(FilasDe(servicios, historial[j].pedido)) = 2
\* A worker is inside _ejecutar_sp, between cursor.execute and the commit or
\* rollback of the connection.
DentroDeEjecutarSp(h) == pc[h] \in {"commit", "rollback"}

\* C21: the stored-procedure execution with its commit or rollback is one
\* operation under the connection's lock, so no two workers are inside it on
\* the shared write connection at the same time.
C21_UnSoloUsuarioDeLaConexion ==
    \A h \in Hilos : \A g \in Hilos \ {h} :
        ~(DentroDeEjecutarSp(h) /\ DentroDeEjecutarSp(g))

\* C22: an acknowledgement file that exists in the outbox holds every line of
\* its run, at every moment.
C22_RespuestaCompleta ==
    \A r \in respuestas :
        ~r.fallido => r.cuerpo = CuerpoDeCorrida(r.canal)

\* C23: the acknowledgements of two different input files never get the same
\* file name.
C23_NombresDistintos ==
    (resultado # Ninguno /\ Len(resultado.nombres) = 2)
        => resultado.nombres[1] # resultado.nombres[2]

\* C24: a file that ends in the errors folder with a rejection acknowledgement
\* has no row of its own committed to the ledger by that run.
C24_RechazadoSinFilas ==
    \A c \in {"xml", "txt"} :
        (/\ lugar[c] = "errores"
         /\ corrida[c] = 1
         /\ RespuestaFallido(c, 1) \in respuestas)
            => ~\E r \in servicios \cup transacciones : r.origen.canal = c

\* C25: during the watcher's lifetime the callback is given each file name at
\* most once, and only names recorded in _seen.
C25_CadaNombreUnaVez ==
    \A name \in NombresDeBuzon :
        /\ vigia.entregas[name] <= 1
        /\ vigia.entregas[name] = 1 => name \in vigia.seen

\* One file's callback raised and the file is still in the inbox; another
\* name was handed over, moved away and dropped again; neither was handed to
\* the callback a second time.
C25_Testigo ==
    \E n1 \in NombresDeBuzon : \E n2 \in NombresDeBuzon \ {n1} :
        /\ vigia.ultimo[n1] = "excepcion" /\ n1 \in vigia.dir /\ vigia.entregas[n1] = 1
        /\ vigia.ultimo[n2] = "movido" /\ n2 \in vigia.dir /\ vigia.soltados[n2] = 2
        /\ vigia.entregas[n2] = 1

\* C26: one upload call re-authenticates at most once after a 401.
C26_UnaReautenticacion == api.reautenticaciones <= 1

\* C27: within a run no two rows mapped from a spreadsheet get the same
\* business order id.
C27_PedidosDistintos ==
    \A n \in DOMAIN filas["excel"] : \A m \in DOMAIN filas["excel"] :
        n # m => filas["excel"][n].id # filas["excel"][m].id

\* C28: in every pair handed to the gateway a provision goes from the fund
\* side to the resolved point and a collection from the resolved point to
\* the fund side; the point side has indicator P, the fund side is the
\* point's fund with indicator F, or the point itself when it has no fund.
C28_RutaSegunConcepto ==
    (resultado # Ninguno /\ resultado.valido) =>
        LET lado == FondoOPunto(argumento.cod_fondo)
            conFondo == argumento.cod_fondo # None
        IN IF resultado.recoleccion
           THEN /\ resultado.cod_punto_origen = PuntoPk
                /\ resultado.indicador_tipo_origen = "P"
                /\ resultado.cod_punto_destino = lado
                /\ conFondo => resultado.indicador_tipo_destino = "F"
           ELSE /\ resultado.cod_punto_destino = PuntoPk
                /\ resultado.indicador_tipo_destino = "P"
                /\ resultado.cod_punto_origen = lado
                /\ conFondo => resultado.indicador_tipo_origen = "F"

\* C29: every ServicioDTO handed to the gateway has valor_servicio equal to
\* valor_billete plus valor_moneda.
C29_TotalEsBilleteMasMoneda ==
    (resultado # Ninguno /\ resultado.valido) =>
        resultado.valor_servicio = resultado.valor_billete + resultado.valor_moneda

\* A standard row without denomination amounts and with a declared
\* VALOR_TOTAL: the declared value is the total and the banknote value.
C29_Testigo ==
    /\ resultado # Ninguno
    /\ argumento.mapeador = "standard"
    /\ argumento.denominaciones = <<>>
    /\ argumento.declarado > 0
    /\ resultado.valor_servicio = argumento.declarado
    /\ resultado.valor_billete = argumento.declarado

\* C30: every TransaccionDTO a mapper builds has estado_transaccion
\* "RegistroTesoreria".
C30_EstadoInicialRegistroTesoreria ==
    (resultado # Ninguno /\ resultado.valido) =>
        resultado.estado_transaccion = "RegistroTesoreria"

====
